---- MODULE Spec2Model ----
(***************************************************************************)
(* A model of lotus/cache.py: the enable gate (require_cache_enabled), the *)
(* in-process InMemoryCache (an OrderedDict bounded by max_size) and the   *)
(* durable SQLiteCache (one table cache(key, value, last_accessed) bounded *)
(* by max_size, evicting by ascending last_accessed).                      *)
(***************************************************************************)
EXTENDS Integers, Sequences, FiniteSets, TLC

\* ------------------------------------------------------------------ bounds
MaxCap == 2
NumKeys == 3
MaxTime == 1
\* the number of calls made on a pair of caches driven side by side
MaxPairTime == 4

KeyNames == <<"a", "b", "c", "d", "e", "f">>
Keys == {KeyNames[i] : i \in 1..NumKeys}
Values == {"v1", "v2"}
\* max_size is an unchecked int, in Cache.__init__ and in reset alike: 0
\* stands for the values that are not positive
Capacities == 0..MaxCap
Times == 0..MaxTime

\* Python's None as a result: a miss, or a gated call
None == "None"

\* the optional argument of reset: <<>> is the default None, <<n>> is n
NoArg == <<>>
ResetArgs == {NoArg} \cup {<<n>> : n \in Capacities}

VARIABLES
    backend,        \* which concrete Cache the caller constructed
    enable_cache,   \* lotus.settings.enable_cache
    max_size,       \* Cache.max_size
    cache,          \* InMemoryCache.cache, the OrderedDict, cold end first
    rows,           \* the rows of table cache in the store file
    clock,          \* int(time.time()) as the next statement would read it
    last,           \* history: the last get/insert/reset call and its result
    run,            \* history, kept under SpecRun only: the distinct keys
                    \* inserted since the store was last empty, while no
                    \* other call reached the store
    order,          \* history: the keys InMemoryCache holds, in the order
                    \* of their first insertion since they were last absent
    conn            \* per SQLiteCache instance on the shared store file:
                    \* the statement its call has reached and what its
                    \* open transaction has written

vars == <<backend, enable_cache, max_size, cache, rows, clock, last, run,
          order, conn>>

\* ------------------------------------------------------- pickle (encoding)
dumps(v) == <<"pickle", v>>
loads(b) == b[2]

\* values pickle cannot handle: a lambda cannot be encoded; an instance of a
\* class that is gone when the row is read is encoded but cannot be decoded
SerValues == {"v1", "lambda", "gone"}
CanDump(v) == v # "lambda"
CanLoad(b) == b[2] # "gone"
PicklingError == "PicklingError"
UnpicklingError == "UnpicklingError"

\* ------------------------------------------------------------ enable gate
\* mutant: the wrapper calls the function without looking at the flag
require_cache_enabled_ungated(enabled, body, skipped) == body

\* wrapper: the decorated body runs only when the flag is on at call time;
\* otherwise the call returns None and nothing is touched
require_cache_enabled(enabled, body, skipped) ==
    IF ~enabled THEN skipped ELSE body

\* ------------------------------------------------------------ OrderedDict
Entry(k, v) == [key |-> k, value |-> v]

DictKeys(c) == {c[i].key : i \in 1..Len(c)}

DictGet(c, k) ==
    IF k \in DictKeys(c)
    THEN c[CHOOSE i \in 1..Len(c) : c[i].key = k].value
    ELSE None

\* mutant: the assignment is followed by move_to_end(key)
DictSetItem_move_to_end(c, k, v) ==
    Append(SelectSeq(c, LAMBDA e : e.key # k), Entry(k, v))

\* self.cache[key] = value: a present key keeps its position, a new key is
\* appended at the end
DictSetItem(c, k, v) ==
    IF k \in DictKeys(c)
    THEN [i \in 1..Len(c) |-> IF c[i].key = k THEN Entry(k, v) ELSE c[i]]
    ELSE Append(c, Entry(k, v))

\* popitem(last=False): removes the first entry
DictPopFirst(c) == Tail(c)

\* ---------------------------------------------------------- InMemoryCache
InMemoryCache_get(c, k) == DictGet(c, k)

\* mutant: popitem() with its default last=True removes the hot end
InMemoryCache_insert_poplast(c, n, k, v) ==
    LET c1 == DictSetItem(c, k, v)
    IN  IF Len(c1) > n THEN SubSeq(c1, 1, Len(c1) - 1) ELSE c1

\* mutant: the entry is popped as soon as the size reaches max_size
InMemoryCache_insert_ge(c, n, k, v) ==
    LET c1 == DictSetItem(c, k, v)
    IN  IF Len(c1) >= n THEN DictPopFirst(c1) ELSE c1

InMemoryCache_insert(c, n, k, v) ==
    LET c1 == DictSetItem(c, k, v)
    IN  IF Len(c1) > n THEN DictPopFirst(c1) ELSE c1

InMemoryCache_reset(n, arg) == IF arg # NoArg THEN arg[1] ELSE n

\* ------------------------------------------------------------ SQLiteCache
Row(k, b, t) == [key |-> k, value |-> b, last_accessed |-> t]

RowKeys(rs) == {r.key : r \in rs}

get_time == clock

\* mutant: the table is dropped and created again
create_table_drop(rs) == {}

\* _create_table on a store that has the table: CREATE TABLE IF NOT EXISTS
\* leaves the rows as they are
create_table(rs) == rs

\* SELECT value FROM cache WHERE key = ?, fetchone, pickle.loads
SQLiteCache_get(rs, k) ==
    IF k \in RowKeys(rs)
    THEN loads((CHOOSE r \in rs : r.key = k).value)
    ELSE None

\* mutant: the UPDATE without its WHERE clause
UpdateLastAccessed_all(rs, k, t) ==
    {[r EXCEPT !.last_accessed = t] : r \in rs}

\* UPDATE cache SET last_accessed = ? WHERE key = ?
UpdateLastAccessed(rs, k, t) ==
    {IF r.key = k THEN [r EXCEPT !.last_accessed = t] ELSE r : r \in rs}

\* get: the table afterwards; the UPDATE runs on a hit only
SQLiteCache_get_rows(rs, k, t) ==
    IF k \in RowKeys(rs) THEN UpdateLastAccessed(rs, k, t) ELSE rs

\* mutant: a plain INSERT that leaves the conflicting row in place
InsertOrReplace_keepold(rs, k, b, t) == rs \cup {Row(k, b, t)}

\* INSERT OR REPLACE INTO cache: the row is written after every row that
\* conflicts on the primary key is removed
InsertOrReplace(rs, k, b, t) ==
    {r \in rs : r.key # k} \cup {Row(k, b, t)}

\* mutant: ORDER BY last_accessed DESC
OldestKeys_desc(rs, n) ==
    LET m == IF n < Cardinality(rs) THEN n ELSE Cardinality(rs)
    IN  {RowKeys(S) : S \in {T \in SUBSET rs :
            /\ Cardinality(T) = m
            /\ \A d \in T : \A s \in rs \ T :
                   d.last_accessed >= s.last_accessed}}

\* SELECT key FROM cache ORDER BY last_accessed ASC LIMIT n: SQL leaves the
\* order of rows with equal last_accessed open, so every choice of n rows
\* that no remaining row precedes is a possible result
OldestKeys(rs, n) ==
    LET m == IF n < Cardinality(rs) THEN n ELSE Cardinality(rs)
    IN  {RowKeys(S) : S \in {T \in SUBSET rs :
            /\ Cardinality(T) = m
            /\ \A d \in T : \A s \in rs \ T :
                   d.last_accessed <= s.last_accessed}}

\* mutant: one row is deleted however far the table is over the limit
enforce_size_limit_single(rs, n) ==
    IF Cardinality(rs) > n
    THEN {{r \in rs : r.key \notin ks} : ks \in OldestKeys(rs, 1)}
    ELSE {rs}

\* _enforce_size_limit: the possible contents of the table afterwards
enforce_size_limit(rs, n) ==
    LET count == Cardinality(rs)
    IN  IF count > n
        THEN {{r \in rs : r.key \notin ks} : ks \in OldestKeys(rs, count - n)}
        ELSE {rs}

\* insert: the possible contents of the table afterwards
SQLiteCache_insert(rs, n, k, v, t) ==
    enforce_size_limit(InsertOrReplace(rs, k, dumps(v), t), n)

\* mutant: "if max_size:" takes the argument 0 for no argument
SQLiteCache_reset_truthy(n, arg) ==
    IF arg # NoArg /\ arg[1] # 0 THEN arg[1] ELSE n

SQLiteCache_reset(n, arg) == IF arg # NoArg THEN arg[1] ELSE n

\* ------------------------------------------ instances sharing a store file
Instances == {"A", "B"}

\* what the instances sharing a store file are given
MaxConcCap == 1
NumConcKeys == 2
ConcCapacities == 0..MaxConcCap
ConcKeys == {KeyNames[i] : i \in 1..NumConcKeys}

OperationalError == "OperationalError"

\* a connection outside a call
IdleConn ==
    [pc |-> "idle", key |-> None, value |-> None, writes |-> {}, dels |-> {}]

NoConns == [p \in Instances |-> IdleConn]

\* the instances inside the write transaction of an insert
Writers(c) == {p \in Instances : c[p].pc \in {"inserted", "enforced"}}

\* mutant: writers do not exclude each other
CanWrite_nolock(c, p) == TRUE

\* a statement that writes starts the transaction and takes the write lock
\* of the store file, which one connection holds at a time
CanWrite(c, p) == Writers(c) \ {p} = {}

\* the table as the transaction of connection cn sees it: the committed
\* rows with its own writes and deletes applied
View(rs, cn) ==
    {r \in rs : r.key \notin RowKeys(cn.writes) \cup cn.dels} \cup cn.writes

\* ---------------------------------------------------------------- history
Call(op, k, v, arg, enabled, ret, present, count0, cap0, evicted) ==
    [op |-> op, key |-> k, value |-> v, arg |-> arg, enabled |-> enabled,
     ret |-> ret, present |-> present, count0 |-> count0, cap0 |-> cap0,
     evicted |-> evicted]

NoCall == Call("init", None, None, NoArg, FALSE, None, FALSE, 0, 0, {})
Opened == Call("open", None, None, NoArg, FALSE, None, FALSE, 0, 0, {})

RunOff == [on |-> FALSE, ok |-> FALSE, keys |-> <<>>]
FreshRun == [on |-> TRUE, ok |-> TRUE, keys |-> <<>>]
BrokenRun == [on |-> TRUE, ok |-> FALSE, keys |-> <<>>]

SeqKeys(s) == {s[i] : i \in 1..Len(s)}

\* the store was emptied
RunAfterReset(r) == IF r.on THEN FreshRun ELSE r

\* a get reached the store
RunAfterGet(r) == IF r.on THEN BrokenRun ELSE r

\* an insert of k reached the store
RunAfterInsert(r, k) ==
    IF ~r.on THEN r
    ELSE IF r.ok /\ k \notin SeqKeys(r.keys)
         THEN [r EXCEPT !.keys = Append(r.keys, k)]
         ELSE BrokenRun

\* the store was opened again
RunAfterOpen(r, rs) ==
    IF ~r.on THEN r ELSE IF rs = {} THEN FreshRun ELSE BrokenRun

\* an insert of k reached the OrderedDict, which holds the keys ks after it:
\* a key that was absent is the last one inserted, the keys that are gone
\* leave the order
OrderAfterInsert(o, k, ks) ==
    LET o1 == IF k \in SeqKeys(o) THEN o ELSE Append(o, k)
    IN  SelectSeq(o1, LAMBDA x : x \in ks)

Count == IF backend = "mem" THEN Len(cache) ELSE Cardinality(rows)
StoredKeys == IF backend = "mem" THEN DictKeys(cache) ELSE RowKeys(rows)

\* ------------------------------------------------------------------- Init
Init ==
    /\ backend \in {"mem", "sqlite"}
    /\ enable_cache = FALSE
    /\ max_size \in Capacities
    /\ cache = <<>>
    /\ rows = {}
    /\ clock = 0
    /\ last = NoCall
    /\ run = RunOff
    /\ order = <<>>
    /\ conn = NoConns

\* the same, with the history of inserted keys kept
InitRun ==
    /\ backend \in {"mem", "sqlite"}
    /\ enable_cache = FALSE
    /\ max_size \in Capacities
    /\ cache = <<>>
    /\ rows = {}
    /\ clock = 0
    /\ last = NoCall
    /\ run = FreshRun
    /\ order = <<>>
    /\ conn = NoConns

\* ---------------------------------------------------------------- actions
\* lotus.settings.configure(enable_cache=b)
Configure(b) ==
    /\ enable_cache # b
    /\ enable_cache' = b
    /\ UNCHANGED <<backend, max_size, cache, rows, clock, last, run, order,
                   conn>>

\* the wall clock SQLiteCache reads reaches the next second
Tick ==
    /\ backend = "sqlite"
    /\ clock < MaxTime
    /\ clock' = clock + 1
    /\ UNCHANGED <<backend, enable_cache, max_size, cache, rows, last, run,
                   order, conn>>

\* the wall clock is set back: time.time() is not monotonic
ClockSetBack ==
    /\ backend = "sqlite"
    /\ \E t \in Times : t < clock /\ clock' = t
    /\ UNCHANGED <<backend, enable_cache, max_size, cache, rows, last, run,
                   order, conn>>

InMemoryGet(k) ==
    /\ backend = "mem"
    /\ last' = Call("get", k, None, NoArg, enable_cache,
                    require_cache_enabled(enable_cache,
                                          InMemoryCache_get(cache, k), None),
                    k \in DictKeys(cache), Len(cache), max_size, {})
    /\ run' = require_cache_enabled(enable_cache, RunAfterGet(run), run)
    /\ UNCHANGED <<backend, enable_cache, max_size, cache, rows, clock,
                   order, conn>>

InMemoryInsert(k, v) ==
    /\ backend = "mem"
    /\ cache' = require_cache_enabled(enable_cache,
                    InMemoryCache_insert(cache, max_size, k, v), cache)
    /\ last' = Call("insert", k, v, NoArg, enable_cache, None,
                    k \in DictKeys(cache), Len(cache), max_size,
                    IF enable_cache
                    THEN (DictKeys(cache) \cup {k}) \ DictKeys(cache')
                    ELSE {})
    /\ run' = require_cache_enabled(enable_cache, RunAfterInsert(run, k), run)
    /\ order' = require_cache_enabled(enable_cache,
                    OrderAfterInsert(order, k, DictKeys(cache')), order)
    /\ UNCHANGED <<backend, enable_cache, max_size, rows, clock, conn>>

InMemoryReset(arg) ==
    /\ backend = "mem"
    /\ cache' = <<>>
    /\ max_size' = InMemoryCache_reset(max_size, arg)
    /\ last' = Call("reset", None, None, arg, enable_cache, None, FALSE,
                    Len(cache), max_size, DictKeys(cache))
    /\ run' = RunAfterReset(run)
    /\ order' = <<>>
    /\ UNCHANGED <<backend, enable_cache, rows, clock, conn>>

\* mutant: get without the decorator
SQLiteGet_undecorated(k) ==
    /\ backend = "sqlite"
    /\ rows' = SQLiteCache_get_rows(rows, k, get_time)
    /\ last' = Call("get", k, None, NoArg, enable_cache,
                    SQLiteCache_get(rows, k),
                    k \in RowKeys(rows), Cardinality(rows), max_size, {})
    /\ run' = RunAfterGet(run)
    /\ UNCHANGED <<backend, enable_cache, max_size, cache, clock, order, conn>>

SQLiteGet(k) ==
    /\ backend = "sqlite"
    /\ rows' = require_cache_enabled(enable_cache,
                   SQLiteCache_get_rows(rows, k, get_time), rows)
    /\ last' = Call("get", k, None, NoArg, enable_cache,
                    require_cache_enabled(enable_cache,
                                          SQLiteCache_get(rows, k), None),
                    k \in RowKeys(rows), Cardinality(rows), max_size, {})
    /\ run' = require_cache_enabled(enable_cache, RunAfterGet(run), run)
    /\ UNCHANGED <<backend, enable_cache, max_size, cache, clock, order, conn>>

SQLiteInsert(k, v) ==
    /\ backend = "sqlite"
    /\ rows' \in require_cache_enabled(enable_cache,
                   SQLiteCache_insert(rows, max_size, k, v, get_time), {rows})
    /\ last' = Call("insert", k, v, NoArg, enable_cache, None,
                    k \in RowKeys(rows), Cardinality(rows), max_size,
                    IF enable_cache
                    THEN (RowKeys(rows) \cup {k}) \ RowKeys(rows')
                    ELSE {})
    /\ run' = require_cache_enabled(enable_cache, RunAfterInsert(run, k), run)
    /\ UNCHANGED <<backend, enable_cache, max_size, cache, clock, order, conn>>

SQLiteReset(arg) ==
    /\ backend = "sqlite"
    /\ rows' = {}
    /\ max_size' = SQLiteCache_reset(max_size, arg)
    /\ last' = Call("reset", None, None, arg, enable_cache, None, FALSE,
                    Cardinality(rows), max_size, RowKeys(rows))
    /\ run' = RunAfterReset(run)
    /\ UNCHANGED <<backend, enable_cache, cache, clock, order, conn>>

\* the instance is discarded (__del__ closes the connection) and a new one
\* is constructed on the same store path: CREATE TABLE IF NOT EXISTS keeps
\* the rows, max_size is the new constructor argument
SQLiteReopen(n) ==
    /\ backend = "sqlite"
    /\ max_size' = n
    /\ rows' = create_table(rows)
    /\ last' = Opened
    /\ run' = RunAfterOpen(run, rows)
    /\ UNCHANGED <<backend, enable_cache, cache, clock, order, conn>>

Next ==
    \/ \E b \in BOOLEAN : Configure(b)
    \/ Tick
    \/ ClockSetBack
    \/ \E k \in Keys : InMemoryGet(k)
    \/ \E k \in Keys, v \in Values : InMemoryInsert(k, v)
    \/ \E arg \in ResetArgs : InMemoryReset(arg)
    \/ \E k \in Keys : SQLiteGet(k)
    \/ \E k \in Keys, v \in Values : SQLiteInsert(k, v)
    \/ \E arg \in ResetArgs : SQLiteReset(arg)
    \/ \E n \in Capacities : SQLiteReopen(n)

Spec == Init /\ [][Next]_vars

SpecRun == InitRun /\ [][Next]_vars

\* an InMemoryCache alone, with the history of inserted keys kept
InitMemRun == InitRun /\ backend = "mem"

NextMem ==
    \/ \E b \in BOOLEAN : Configure(b)
    \/ \E k \in Keys : InMemoryGet(k)
    \/ \E k \in Keys, v \in Values : InMemoryInsert(k, v)
    \/ \E arg \in ResetArgs : InMemoryReset(arg)

SpecMemRun == InitMemRun /\ [][NextMem]_vars

\* ------------------------------------------- values pickle cannot handle
\* a SQLiteCache alone, given values of every kind
InitSer == Init /\ backend = "sqlite"

\* get raises when pickle.loads fails
GetRaises(rs, k) ==
    /\ k \in RowKeys(rs)
    /\ ~CanLoad((CHOOSE r \in rs : r.key = k).value)

\* mutant: the UPDATE runs before pickle.loads and is committed
RowsAfterFailedGet_updated(rs, k, t) == UpdateLastAccessed(rs, k, t)

\* the table after a get in which pickle.loads raised: the UPDATE was not
\* reached and the with block has nothing to roll back
RowsAfterFailedGet(rs, k, t) == rs

\* get, pickle.loads raising included
SerGet(k) ==
    IF enable_cache /\ GetRaises(rows, k)
    THEN /\ backend = "sqlite"
         /\ rows' = RowsAfterFailedGet(rows, k, get_time)
         /\ last' = Call("get", k, None, NoArg, enable_cache,
                         UnpicklingError, TRUE, Cardinality(rows),
                         max_size, {})
         /\ run' = RunAfterGet(run)
         /\ UNCHANGED <<backend, enable_cache, max_size, cache, clock, order,
                        conn>>
    ELSE SQLiteGet(k)

\* insert, pickle.dumps raising included: it runs before the with block
SerInsert(k, v) ==
    IF enable_cache /\ ~CanDump(v)
    THEN /\ backend = "sqlite"
         /\ last' = Call("insert", k, v, NoArg, enable_cache,
                         PicklingError, k \in RowKeys(rows),
                         Cardinality(rows), max_size, {})
         /\ UNCHANGED <<backend, enable_cache, max_size, cache, rows, clock,
                        run, order, conn>>
    ELSE SQLiteInsert(k, v)

NextSer ==
    \/ \E b \in BOOLEAN : Configure(b)
    \/ Tick
    \/ \E k \in Keys : SerGet(k)
    \/ \E k \in Keys, v \in SerValues : SerInsert(k, v)
    \/ \E arg \in ResetArgs : SQLiteReset(arg)

SpecSer == InitSer /\ [][NextSer]_vars

\* ------------------------------------------------- two backends side by side
\* an InMemoryCache and a SQLiteCache on an empty store, constructed with the
\* same max_size, the flag on
InitPair ==
    /\ backend = "both"
    /\ enable_cache = TRUE
    /\ max_size \in Capacities
    /\ cache = <<>>
    /\ rows = {}
    /\ clock = 0
    /\ last = NoCall
    /\ run = RunOff
    /\ order = <<>>
    /\ conn = NoConns

\* the same get on both, a second after the call before; last.ret is the
\* result of InMemoryCache.get and last.value that of SQLiteCache.get
PairGet(k) ==
    /\ backend = "both"
    /\ clock < MaxPairTime
    /\ clock' = clock + 1
    /\ rows' = require_cache_enabled(enable_cache,
                   SQLiteCache_get_rows(rows, k, clock'), rows)
    /\ last' = Call("get", k,
                    require_cache_enabled(enable_cache,
                                          SQLiteCache_get(rows, k), None),
                    NoArg, enable_cache,
                    require_cache_enabled(enable_cache,
                                          InMemoryCache_get(cache, k), None),
                    k \in DictKeys(cache), Len(cache), max_size, {})
    /\ UNCHANGED <<backend, enable_cache, max_size, cache, run, order, conn>>

\* the same insert on both, a second after the call before
PairInsert(k, v) ==
    /\ backend = "both"
    /\ clock < MaxPairTime
    /\ clock' = clock + 1
    /\ cache' = require_cache_enabled(enable_cache,
                    InMemoryCache_insert(cache, max_size, k, v), cache)
    /\ rows' \in require_cache_enabled(enable_cache,
                   SQLiteCache_insert(rows, max_size, k, v, clock'), {rows})
    /\ last' = Call("insert", k, v, NoArg, enable_cache, None,
                    k \in DictKeys(cache), Len(cache), max_size, {})
    /\ UNCHANGED <<backend, enable_cache, max_size, run, order, conn>>

\* the same reset on both, a second after the call before
PairReset(arg) ==
    /\ backend = "both"
    /\ clock < MaxPairTime
    /\ clock' = clock + 1
    /\ cache' = <<>>
    /\ rows' = {}
    /\ max_size' = InMemoryCache_reset(max_size, arg)
    /\ max_size' = SQLiteCache_reset(max_size, arg)
    /\ last' = Call("reset", None, None, arg, enable_cache, None, FALSE,
                    Len(cache), max_size, {})
    /\ UNCHANGED <<backend, enable_cache, run, order, conn>>

NextPair ==
    \/ \E k \in Keys : PairGet(k)
    \/ \E k \in Keys, v \in Values : PairInsert(k, v)
    \/ \E arg \in ResetArgs : PairReset(arg)

SpecPair == InitPair /\ [][NextPair]_vars

\* ------------------------------------------ instances sharing a store file
\* the history of a call on the shared store keeps the operation, what it
\* returned and the keys it evicted
\* SQLiteCache instances of one capacity on one store file, the flag on
InitConc ==
    /\ backend = "sqlite"
    /\ enable_cache = TRUE
    /\ max_size \in ConcCapacities
    /\ cache = <<>>
    /\ rows = {}
    /\ clock = 0
    /\ last = NoCall
    /\ run = RunOff
    /\ order = <<>>
    /\ conn = NoConns

\* insert, line 85: INSERT OR REPLACE opens the transaction
ConcInsertBegin(p, k, v) ==
    /\ conn[p].pc = "idle"
    /\ CanWrite(conn, p)
    /\ conn' = [conn EXCEPT ![p] =
                   [pc |-> "inserted", key |-> k, value |-> v,
                    writes |-> {Row(k, dumps(v), get_time)}, dels |-> {}]]
    /\ UNCHANGED <<backend, enable_cache, max_size, cache, rows, clock, last,
                   run, order>>

\* insert, line 92: _enforce_size_limit inside the same transaction
ConcInsertEnforce(p) ==
    /\ conn[p].pc = "inserted"
    /\ \E T \in enforce_size_limit(View(rows, conn[p]), max_size) :
          conn' = [conn EXCEPT ![p] =
                     [@ EXCEPT !.pc = "enforced",
                               !.writes = @ \cap T,
                               !.dels = RowKeys(View(rows, conn[p]))
                                           \ RowKeys(T)]]
    /\ UNCHANGED <<backend, enable_cache, max_size, cache, rows, clock, last,
                   run, order>>

\* insert: the with block of line 84 ends, the transaction commits and the
\* call returns
ConcInsertCommit(p) ==
    /\ conn[p].pc = "enforced"
    /\ rows' = View(rows, conn[p])
    /\ conn' = [conn EXCEPT ![p] = IdleConn]
    /\ last' = Call("insert", None, None, NoArg, TRUE, None,
                    FALSE, 0, max_size, conn[p].dels)
    /\ UNCHANGED <<backend, enable_cache, max_size, cache, clock, run, order>>

\* insert: the store file stays locked by another connection until the
\* timeout; sqlite3 raises and the with block rolls back
ConcInsertBusy(p, k, v) ==
    /\ conn[p].pc = "idle"
    /\ ~CanWrite(conn, p)
    /\ last' = Call("insert", None, None, NoArg, TRUE, OperationalError,
                    FALSE, 0, max_size, {})
    /\ UNCHANGED <<backend, enable_cache, max_size, cache, rows, clock, run,
                   order, conn>>

\* get, lines 65-69: the SELECT runs outside a transaction and reads the
\* committed rows; a miss returns None
ConcGetSelect(p, k) ==
    /\ conn[p].pc = "idle"
    /\ IF k \in RowKeys(rows)
       THEN /\ conn' = [conn EXCEPT ![p] =
                          [pc |-> "selected", key |-> k,
                           value |-> (CHOOSE r \in rows : r.key = k).value,
                           writes |-> {}, dels |-> {}]]
            /\ UNCHANGED last
       ELSE /\ last' = Call("get", None, None, NoArg, TRUE, None,
                            FALSE, 0, max_size, {})
            /\ UNCHANGED conn
    /\ UNCHANGED <<backend, enable_cache, max_size, cache, rows, clock, run,
                   order>>

\* get, lines 70-78: the UPDATE opens the transaction, the with block ends,
\* the transaction commits and the value read by the SELECT is returned
ConcGetUpdate(p) ==
    /\ conn[p].pc = "selected"
    /\ CanWrite(conn, p)
    /\ rows' = UpdateLastAccessed(rows, conn[p].key, get_time)
    /\ conn' = [conn EXCEPT ![p] = IdleConn]
    /\ last' = Call("get", None, None, NoArg, TRUE,
                    loads(conn[p].value), TRUE, 0, max_size, {})
    /\ UNCHANGED <<backend, enable_cache, max_size, cache, clock, run, order>>

\* get: the UPDATE finds the store file locked until the timeout
ConcGetBusy(p) ==
    /\ conn[p].pc = "selected"
    /\ ~CanWrite(conn, p)
    /\ conn' = [conn EXCEPT ![p] = IdleConn]
    /\ last' = Call("get", None, None, NoArg, TRUE, OperationalError,
                    TRUE, 0, max_size, {})
    /\ UNCHANGED <<backend, enable_cache, max_size, cache, rows, clock, run,
                   order>>

\* reset(): DELETE FROM cache in a transaction of its own
ConcReset(p) ==
    /\ conn[p].pc = "idle"
    /\ CanWrite(conn, p)
    /\ rows' = {}
    /\ max_size' = SQLiteCache_reset(max_size, NoArg)
    /\ last' = Call("reset", None, None, NoArg, TRUE, None,
                    FALSE, 0, max_size, {})
    /\ UNCHANGED <<backend, enable_cache, cache, clock, run, order, conn>>

\* reset(): the store file is locked until the timeout
ConcResetBusy(p) ==
    /\ conn[p].pc = "idle"
    /\ ~CanWrite(conn, p)
    /\ last' = Call("reset", None, None, NoArg, TRUE, OperationalError,
                    FALSE, 0, max_size, {})
    /\ UNCHANGED <<backend, enable_cache, max_size, cache, rows, clock, run,
                   order, conn>>

NextConc ==
    \/ Tick
    \/ \E p \in Instances, k \in ConcKeys, v \in Values :
          ConcInsertBegin(p, k, v)
    \/ \E p \in Instances : ConcInsertEnforce(p)
    \/ \E p \in Instances : ConcInsertCommit(p)
    \/ \E p \in Instances, k \in ConcKeys, v \in Values :
          ConcInsertBusy(p, k, v)
    \/ \E p \in Instances, k \in ConcKeys : ConcGetSelect(p, k)
    \/ \E p \in Instances : ConcGetUpdate(p)
    \/ \E p \in Instances : ConcGetBusy(p)
    \/ \E p \in Instances : ConcReset(p)
    \/ \E p \in Instances : ConcResetBusy(p)

SpecConc == InitConc /\ [][NextConc]_vars

TypeOK ==
    /\ backend \in {"mem", "sqlite", "both"}
    /\ enable_cache \in BOOLEAN
    /\ max_size \in Capacities
    /\ clock \in Nat

\* ----------------------------------------------------------------- claims
\* what get(k) would return from the present state with the flag on
Lookup(k) ==
    IF backend = "mem" THEN InMemoryCache_get(cache, k)
    ELSE SQLiteCache_get(rows, k)

\* the number of entries stored under key k
EntriesFor(k) ==
    IF backend = "mem"
    THEN Cardinality({i \in 1..Len(cache) : cache[i].key = k})
    ELSE Cardinality({r \in rows : r.key = k})

EnabledInsert == last.op = "insert" /\ last.enabled

\* C1: with a positive capacity, the entry count is at most max_size when an
\* insert returns: always after an insert that ran, and after a gated insert
\* whenever the count was within the capacity before it.
C1_CapacityInvariant ==
    (/\ last.op = "insert"
     /\ max_size > 0
     /\ (last.enabled \/ last.count0 <= last.cap0))
        => Count <= max_size

\* a durable insert that found the store two rows over and deleted both
C1_Witness ==
    /\ backend = "sqlite"
    /\ EnabledInsert
    /\ max_size > 0
    /\ Cardinality(last.evicted) >= 2
    /\ Count = max_size

\* C2: in the in-memory cache a successful get(k) makes k most recently
\* used, so an insert of a new key that overflows right after it does not
\* evict k while another entry is there to evict.
C2_ReadRefreshesRecency ==
    [][(/\ backend = "mem"
        /\ last.op = "get" /\ last.enabled /\ last.present
        /\ last'.op = "insert" /\ last'.enabled /\ ~last'.present
        /\ last'.count0 >= 2
        /\ last'.evicted # {})
           => last.key \in DictKeys(cache')]_vars

\* C3: in the in-memory cache insert(k, v) on a present key k makes k most
\* recently used, so an insert of a new key that overflows right after it
\* does not evict k while another entry is there to evict.
C3_OverwriteRefreshesRecency ==
    [][(/\ backend = "mem"
        /\ last.op = "insert" /\ last.enabled /\ last.present
        /\ last'.op = "insert" /\ last'.enabled /\ ~last'.present
        /\ last'.count0 >= 2
        /\ last'.evicted # {})
           => last.key \in DictKeys(cache')]_vars

\* C4: in-memory round trip: after insert(k, v) with the flag on and
\* max_size >= 1, get(k) returns v.
C4_InMemoryRoundTrip ==
    (backend = "mem" /\ EnabledInsert /\ max_size >= 1)
        => InMemoryCache_get(cache, last.key) = last.value

\* an in-memory insert of a new key that evicted another entry
C4_Witness ==
    /\ backend = "mem"
    /\ EnabledInsert
    /\ max_size >= 1
    /\ ~last.present
    /\ last.evicted # {}
    /\ InMemoryCache_get(cache, last.key) = last.value

\* C5: durable round trip: after insert(k, v) with the flag on and
\* max_size >= 1, get(k) returns v, whatever the clock read.
C5_DurableRoundTrip ==
    (backend = "sqlite" /\ EnabledInsert /\ max_size >= 1)
        => SQLiteCache_get(rows, last.key) = last.value

\* C6: a get made while the flag is off returns None, whatever is stored.
C6_DisabledGetAbsent ==
    (last.op = "get" /\ ~last.enabled) => last.ret = None

\* a gated get of a key that is stored
C6_Witness ==
    /\ last.op = "get"
    /\ ~last.enabled
    /\ last.present
    /\ last.key \in StoredKeys
    /\ last.ret = None

\* C7: a get or insert made while the flag is off leaves the entries, their
\* order and timestamps, and max_size as they were.
C7_DisabledFrame ==
    [][(/\ ~enable_cache
        /\ last'.op \in {"get", "insert"}
        /\ ~last'.enabled)
           => UNCHANGED <<cache, rows, max_size>>]_vars

\* a gated insert of a new key into a cache that holds other entries
C7_Witness ==
    /\ last.op = "insert"
    /\ ~last.enabled
    /\ Count > 0
    /\ last.key \notin StoredKeys

\* C8: an insert on a present key, the count being within the capacity,
\* makes get(k) return the new value, keeps one entry for k, keeps the
\* count and evicts nothing.
C8_Overwrite ==
    (EnabledInsert /\ last.present /\ last.count0 <= last.cap0)
        => /\ Lookup(last.key) = last.value
           /\ EntriesFor(last.key) = 1
           /\ Count = last.count0
           /\ last.evicted = {}

\* an overwrite in a full cache of two or more entries
C8_Witness ==
    /\ EnabledInsert
    /\ last.present
    /\ last.count0 = max_size
    /\ last.count0 >= 2
    /\ Lookup(last.key) = last.value

\* C9: in the durable cache, after more than max_size distinct keys were
\* inserted into the empty store with no other call in between, the stored
\* keys are exactly the max_size keys inserted last.
C9_DurableBulkEviction ==
    (/\ backend = "sqlite"
     /\ run.ok
     /\ max_size >= 1
     /\ Len(run.keys) > max_size)
        => RowKeys(rows) =
              {run.keys[i] : i \in (Len(run.keys) - max_size + 1)..Len(run.keys)}

\* C10: reset empties the cache whatever the flag, keeps max_size without an
\* argument and sets it to the argument otherwise; an insert of a new key
\* evicts nothing while fewer than max_size entries are stored and exactly
\* one entry when max_size entries are stored.
C10_Reset ==
    /\ (last.op = "reset") =>
          /\ Count = 0
          /\ \A k \in Keys : Lookup(k) = None
          /\ max_size = (IF last.arg = NoArg THEN last.cap0 ELSE last.arg[1])
    /\ (EnabledInsert /\ ~last.present /\ last.count0 < max_size) =>
          /\ last.evicted = {}
          /\ Count = last.count0 + 1
    /\ (EnabledInsert /\ ~last.present /\ max_size >= 1
           /\ last.count0 = max_size) =>
          /\ Cardinality(last.evicted) = 1
          /\ Count = max_size

\* a reset with a new capacity, made with the flag off on a cache of two
\* or more entries
C10_Witness ==
    /\ last.op = "reset"
    /\ ~last.enabled
    /\ last.count0 >= 2
    /\ last.arg # NoArg
    /\ max_size # last.cap0
    /\ Count = 0
\* C11: constructing a SQLiteCache on an existing store leaves the rows as
\* they are, so get on the new instance returns every entry that was stored.
C11_Persistence ==
    [][(last'.op = "open")
           => /\ rows' = rows
              /\ \A r \in rows :
                    SQLiteCache_get(rows', r.key) = loads(r.value)]_vars

\* a new instance on a store that holds two or more rows
C11_Witness ==
    /\ backend = "sqlite"
    /\ last.op = "open"
    /\ Cardinality(rows) >= 2
    /\ \A r \in rows : SQLiteCache_get(rows, r.key) = loads(r.value)

\* C12: max_size is positive in every state, and a reset with an argument
\* that is not positive keeps the previous max_size.
C12_CapacityPositive ==
    /\ max_size > 0
    /\ (last.op = "reset" /\ last.arg # NoArg /\ last.arg[1] <= 0)
          => max_size = last.cap0

\* the lesser of two numbers
Min(a, b) == IF a < b THEN a ELSE b

\* C16: a durable insert leaves min(count, max_size) of the rows it finds
\* after its upsert, and no deleted row has a greater last_accessed than a
\* row that stays.
C16_EvictsOldest ==
    [][(/\ backend = "sqlite"
        /\ enable_cache
        /\ UNCHANGED <<clock, enable_cache>>
        /\ last'.op = "insert")
           => LET U == InsertOrReplace(rows, last'.key,
                                       dumps(last'.value), clock)
              IN  /\ rows' \subseteq U
                  /\ Cardinality(rows') = Min(Cardinality(U), max_size)
                  /\ \A d \in U \ rows' : \A s \in rows' :
                        d.last_accessed <= s.last_accessed]_vars

\* a durable insert that deleted two rows, both older than the row written
C16_Witness ==
    /\ backend = "sqlite"
    /\ EnabledInsert
    /\ Cardinality(last.evicted) >= 2
    /\ last.key \in RowKeys(rows)
    /\ Count = max_size
    /\ clock >= 1
    /\ \A r \in rows : r.key = last.key => r.last_accessed = clock

\* C18: a get with the flag on leaves max_size, the set of entries and every
\* value as they were, changes the recency of no other key, and on a miss
\* returns None and changes nothing.
C18_GetFrame ==
    [][(/\ enable_cache
        /\ UNCHANGED <<clock, enable_cache>>
        /\ last'.op = "get")
           => /\ max_size' = max_size
              /\ cache' = cache
              /\ {Entry(r.key, r.value) : r \in rows'}
                    = {Entry(r.key, r.value) : r \in rows}
              /\ Cardinality(rows') = Cardinality(rows)
              /\ \A r \in rows : r.key # last'.key => r \in rows'
              /\ ~last'.present => (last'.ret = None /\ rows' = rows)]_vars

\* a durable hit that moved last_accessed of the key read, another row
\* being stored
C18_Witness ==
    /\ backend = "sqlite"
    /\ last.op = "get" /\ last.enabled /\ last.present
    /\ last.ret # None
    /\ Count >= 2
    /\ \E r \in rows : r.key = last.key /\ r.last_accessed = 1
    /\ \E r \in rows : r.key # last.key /\ r.last_accessed = 0
\* the keys of the OrderedDict, cold end first
KeySeq(c) == [i \in 1..Len(c) |-> c[i].key]

\* C17: an in-memory insert removes an entry only when the size after the
\* insertion exceeds max_size, then exactly one and, max_size being 1 or
\* more, not the key inserted; while no entry was read or overwritten the
\* keys that stay are the ones inserted last.
C17_SingleEviction ==
    /\ (backend = "mem" /\ EnabledInsert) =>
          LET size == last.count0 + (IF last.present THEN 0 ELSE 1)
          IN  /\ (size <= max_size) => (last.evicted = {} /\ Count = size)
              /\ (size > max_size) =>
                    (Cardinality(last.evicted) = 1 /\ Count = size - 1)
              /\ (max_size >= 1) => last.key \notin last.evicted
    /\ (backend = "mem" /\ run.ok /\ max_size >= 1) =>
          LET n == Len(run.keys)
          IN  KeySeq(cache) = SubSeq(run.keys, n - Min(n, max_size) + 1, n)

\* the third of three distinct keys inserted evicted one entry
C17_Witness ==
    /\ backend = "mem"
    /\ EnabledInsert
    /\ run.ok
    /\ max_size >= 1
    /\ Len(run.keys) >= 3
    /\ Cardinality(last.evicted) = 1
    /\ last.key \in DictKeys(cache)

C15_BackendsAgree ==
    (backend = "both") =>
        /\ (last.op = "get") => last.ret = last.value
        /\ {<<cache[i].key, cache[i].value>> : i \in 1..Len(cache)}
              = {<<r.key, loads(r.value)>> : r \in rows}
\* C19: a durable insert of a value that cannot be encoded raises and
\* leaves the store as it was; a durable get of a row that cannot be decoded
\* raises and leaves last_accessed as it was.
C19_SerializationErrors ==
    [][(/\ enable_cache
        /\ UNCHANGED <<clock, enable_cache>>
        /\ last'.op \in {"get", "insert"})
           => /\ (last'.op = "insert" /\ ~CanDump(last'.value))
                    => (last'.ret = PicklingError /\ rows' = rows)
              /\ (last'.op = "get" /\ GetRaises(rows, last'.key))
                    => (last'.ret = UnpicklingError /\ rows' = rows)
              /\ (last'.ret \in {PicklingError, UnpicklingError})
                    => UNCHANGED <<rows, max_size>>]_vars

\* a get that raised on a row written a second earlier
C19_Witness ==
    /\ backend = "sqlite"
    /\ last.op = "get" /\ last.enabled
    /\ last.ret = UnpicklingError
    /\ clock = 1
    /\ \E r \in rows : r.key = last.key /\ r.last_accessed = 0
\* C13: instances of one capacity N interleave insert and reset on one
\* store file; an insert takes effect at its commit as one insert applied
\* to the rows committed by then, and whenever no insert is under way the
\* store holds at most N rows.
C13_ConcurrentWriters ==
    [][/\ \A p \in Instances :
            (conn[p].pc = "enforced" /\ conn'[p].pc = "idle")
               => \E t \in 0..clock :
                     rows' \in SQLiteCache_insert(rows, max_size, conn[p].key,
                                                 conn[p].value, t)
       /\ (Writers(conn') = {}) => Cardinality(rows') <= max_size']_vars

\* an insert that evicted has returned while the other instance is between
\* the statements of a get
C13_Witness ==
    /\ Writers(conn) = {}
    /\ \E p \in Instances : conn[p].pc = "selected"
    /\ last.op = "insert" /\ last.ret = None /\ last.evicted # {}
    /\ max_size > 0
    /\ Cardinality(rows) = max_size

\* C14: whenever a durable get returns a value, the row of its key holds
\* that value and its last_accessed is the time of this get.
C14_GetOneUnit ==
    [][\A p \in Instances :
         (/\ conn[p].pc = "selected"
          /\ conn'[p].pc = "idle"
          /\ last'.ret # OperationalError)
            => \E r \in rows' : /\ r.key = conn[p].key
                                /\ loads(r.value) = last'.ret
                                /\ r.last_accessed = clock]_vars
====
